---------------------------- MODULE Spec2Model ----------------------------
(***************************************************************************)
(* NYC subway route analysis: the schedule database builder                *)
(* (gtfs_to_sql.py) and the network builder with its A* route prediction   *)
(* (gtfs_astar.py), as a state machine.                                    *)
(*                                                                         *)
(* Units.  Latitudes and longitudes are in hundredths of a degree,         *)
(* haversine distances in millimetres, heuristic estimates and the costs   *)
(* inside the search in milliseconds, edge weights and durations in        *)
(* seconds (as the code stores them).  Every station of the model lies on  *)
(* one meridian, where the haversine formula is R * |dphi|.                *)
(***************************************************************************)
EXTENDS Integers, Sequences, FiniteSets, TLC

VARIABLES
    stops,              \* table stops: stop_id -> [stop_lat, stop_lon]
    trips,              \* table trips: trip_id -> route_id
    stop_times,         \* table stop_times: set of rows
    transfers,          \* table transfers: sequence of rows (rowid order)
    trip_segments,      \* table trip_segments: set of rows
    stop_name_map,      \* gtfs_astar.py: stop_id -> stop_name
    stop_coords,        \* gtfs_astar.py: stop_id -> [stop_lat, stop_lon]
    trip_edges_df,      \* gtfs_astar.py: rows of the trip query
    transfer_edges_df,  \* gtfs_astar.py: rows of the transfer query
    G,                  \* the networkx DiGraph
    i,                  \* position of the running iterrows() loop
    path,               \* result of nx.astar_path
    total_seconds,      \* result of nx.astar_path_length
    out,                \* what the program printed about the prediction
    raised,             \* the exception that left build_network_and_predict
    pc                  \* position in the two scripts

vars == <<stops, trips, stop_times, transfers, trip_segments, stop_name_map,
          stop_coords, trip_edges_df, transfer_edges_df, G, i, path,
          total_seconds, out, raised, pc>>

---------------------------------------------------------------------------
(* Values: Python numbers, float('nan') and None (SQL NULL).               *)

Num(n) == [t |-> "num", v |-> n]
NaN == [t |-> "nan", v |-> 0]
None == [t |-> "none", v |-> 0]

IsNum(x) == x.t = "num"

\* a + b on Python numbers: NaN as soon as one operand is NaN
PyAdd(a, b) == IF IsNum(a) /\ IsNum(b) THEN Num(a.v + b.v) ELSE NaN

\* a < b and a <= b: every comparison with NaN is False
PyLt(a, b) == IsNum(a) /\ IsNum(b) /\ a.v < b.v
PyLe(a, b) == IsNum(a) /\ IsNum(b) /\ a.v <= b.v

\* a == b on Python numbers: NaN equals nothing, itself included
PyEq(a, b) == IsNum(a) /\ IsNum(b) /\ a.v = b.v

Abs(n) == IF n < 0 THEN -n ELSE n

---------------------------------------------------------------------------
(* Program constants.                                                      *)

SUBWAY_SPEED_MPS == 10
R == 6371000
start_node == "101S"
end_node == "142S"

\* the stop ids of the model, in string order (SQLite's GROUP BY order)
StopOrder == <<"101S", "120S", "142S">>
StopIds == {StopOrder[k] : k \in 1..Len(StopOrder)}
StopIndex(s) == CHOOSE k \in 1..Len(StopOrder) : StopOrder[k] = s

TripIds == {"T1", "T2"}
Routes == {"1", "A"}
NoRoute == "<none>"

---------------------------------------------------------------------------
(* gtfs_to_sql.py                                                          *)

\* A GTFS time cell: na (empty cell, read as NaN) or a string, held as the
\* parts str.split(':') gives; a part is the integer int() reads from it, or
\* one int() rejects.
Part(n) == [ok |-> TRUE, v |-> n]
BadPart == [ok |-> FALSE, v |-> 0]
TimeStr(parts) == [na |-> FALSE, parts |-> parts]
NaTime == [na |-> TRUE, parts |-> <<>>]

gtfs_time_to_seconds(time_str) ==
    IF time_str.na THEN None
    ELSE LET parts == time_str.parts IN
         IF Len(parts) < 3 THEN None                          \* IndexError
         ELSE IF \E k \in 1..3 : ~parts[k].ok THEN None       \* ValueError
         ELSE Num(parts[1].v * 3600 + parts[2].v * 60 + parts[3].v)

\* SQL a - b: NULL when an operand is NULL
SqlSub(a, b) == IF IsNum(a) /\ IsNum(b) THEN Num(a.v - b.v) ELSE None

\* the stop_times rows with the converted time columns (lines 48-49)
StopTimesSec(df_st) ==
    {[trip_id |-> r.trip_id, stop_id |-> r.stop_id,
      stop_sequence |-> r.stop_sequence,
      arrival_time_sec |-> gtfs_time_to_seconds(r.arrival_time),
      departure_time_sec |-> gtfs_time_to_seconds(r.departure_time)] :
        r \in df_st}

\* LEAD(...) OVER (PARTITION BY trip_id ORDER BY stop_sequence): the row of
\* the same trip with the next larger stop_sequence
HasLead(rows, r) ==
    \E n \in rows : n.trip_id = r.trip_id /\ n.stop_sequence > r.stop_sequence
Lead(rows, r) ==
    CHOOSE n \in rows :
        /\ n.trip_id = r.trip_id
        /\ n.stop_sequence > r.stop_sequence
        /\ \A m \in rows :
             (m.trip_id = r.trip_id /\ m.stop_sequence > r.stop_sequence)
                => n.stop_sequence <= m.stop_sequence

\* CREATE TABLE trip_segments AS ... (lines 63-90)
TripSegmentsOf(rows, tr) ==
    {[trip_id |-> r.trip_id,
      from_stop_id |-> r.stop_id,
      to_stop_id |-> Lead(rows, r).stop_id,
      duration_sec |-> SqlSub(Lead(rows, r).arrival_time_sec,
                              r.departure_time_sec),
      route_id |-> tr[r.trip_id]] :
        r \in {x \in rows : HasLead(rows, x) /\ x.trip_id \in DOMAIN tr}}

BuildDatabase ==
    /\ pc = "build_database"
    /\ trip_segments' = TripSegmentsOf(StopTimesSec(stop_times), trips)
    /\ pc' = "load_stops"
    /\ UNCHANGED <<stops, trips, stop_times, transfers, stop_name_map,
                   stop_coords, trip_edges_df, transfer_edges_df, G, i, path,
                   total_seconds, out, raised>>

---------------------------------------------------------------------------
(* gtfs_astar.py: loading the tables                                       *)

\* pd.read_sql: a column whose cells are all NULL stays a column of None;
\* a NULL among numbers becomes NaN
ToFrame(v, allNull) ==
    IF IsNum(v) THEN v ELSE IF allNull THEN None ELSE NaN

\* stops_df.set_index('stop_id')[['stop_lat', 'stop_lon']].to_dict('index')
\* on the frame read from the stops table
StopCoords(tbl) ==
    LET latNull == \A s \in DOMAIN tbl : ~IsNum(tbl[s].stop_lat)
        lonNull == \A s \in DOMAIN tbl : ~IsNum(tbl[s].stop_lon)
    IN  [s \in DOMAIN tbl |->
           [stop_lat |-> ToFrame(tbl[s].stop_lat, latNull),
            stop_lon |-> ToFrame(tbl[s].stop_lon, lonNull)]]

LoadStops ==
    /\ pc = "load_stops"
    /\ stop_name_map' = [s \in DOMAIN stops |-> s]
    /\ stop_coords' = StopCoords(stops)
    /\ pc' = "load_edges"
    /\ UNCHANGED <<stops, trips, stop_times, transfers, trip_segments,
                   trip_edges_df, transfer_edges_df, G, i, path,
                   total_seconds, out, raised>>

\* the (from, to) groups of trip_segments, in GROUP BY order
PairLess(p, q) ==
    \/ StopIndex(p[1]) < StopIndex(q[1])
    \/ (p[1] = q[1] /\ StopIndex(p[2]) < StopIndex(q[2]))

RECURSIVE SortPairs(_)
SortPairs(S) ==
    IF S = {} THEN <<>>
    ELSE LET p == CHOOSE x \in S : \A y \in S \ {x} : PairLess(x, y)
         IN  <<p>> \o SortPairs(S \ {p})

Groups(segs) == {<<r.from_stop_id, r.to_stop_id>> : r \in segs}
GroupRows(segs, g) ==
    {r \in segs : r.from_stop_id = g[1] /\ r.to_stop_id = g[2]}

\* MIN(duration_sec): the least non-NULL value, NULL when there is none
SqlMin(rows) ==
    LET vals == {r.duration_sec.v : r \in {x \in rows : IsNum(x.duration_sec)}}
    IN  IF vals = {} THEN None
        ELSE Num(CHOOSE m \in vals : \A n \in vals : m <= n)

\* the bare column route_id beside MIN(): taken from a row holding the
\* minimum (from any row of the group when the minimum is NULL)
RouteCandidates(rows) ==
    {r.route_id : r \in {x \in rows : x.duration_sec = SqlMin(rows)
                                        \/ ~IsNum(SqlMin(rows))}}

\* the CASE with >= 0 for > 0
TransferWeight_ge(min_transfer_time) ==
    IF IsNum(min_transfer_time) /\ min_transfer_time.v >= 0
    THEN min_transfer_time ELSE Num(180)

\* CASE WHEN min_transfer_time > 0 THEN min_transfer_time ELSE 180 END
TransferWeight(min_transfer_time) ==
    IF IsNum(min_transfer_time) /\ min_transfer_time.v > 0
    THEN min_transfer_time ELSE Num(180)

\* SELECT ... FROM transfers WHERE from_stop_id != to_stop_id
RECURSIVE TransferQuery(_)
TransferQuery(rows) ==
    IF rows = <<>> THEN <<>>
    ELSE LET r == Head(rows) IN
         (IF r.from_stop_id # r.to_stop_id
          THEN <<[from_stop_id |-> r.from_stop_id, to_stop_id |-> r.to_stop_id,
                  weight |-> TransferWeight(r.min_transfer_time)]>>
          ELSE <<>>) \o TransferQuery(Tail(rows))

\* SELECT from_stop_id, to_stop_id, MIN(duration_sec) as weight, route_id
\* FROM trip_segments GROUP BY from_stop_id, to_stop_id, read into a frame;
\* rc is the route SQLite takes for each group
TripQuery(segs, rc) ==
    LET gs == SortPairs(Groups(segs))
        allNull == \A k \in 1..Len(gs) : ~IsNum(SqlMin(GroupRows(segs, gs[k])))
    IN  [k \in 1..Len(gs) |->
           [from_stop_id |-> gs[k][1], to_stop_id |-> gs[k][2],
            weight |-> ToFrame(SqlMin(GroupRows(segs, gs[k])), allNull),
            route_id |-> rc[gs[k]]]]

LoadEdges ==
    /\ pc = "load_edges"
    /\ \E rc \in [Groups(trip_segments) -> Routes] :
         /\ \A g \in Groups(trip_segments) :
              rc[g] \in RouteCandidates(GroupRows(trip_segments, g))
         /\ trip_edges_df' = TripQuery(trip_segments, rc)
    /\ transfer_edges_df' = TransferQuery(transfers)
    /\ pc' = "add_nodes"
    /\ UNCHANGED <<stops, trips, stop_times, transfers, trip_segments,
                   stop_name_map, stop_coords, G, i, path, total_seconds,
                   out, raised>>

---------------------------------------------------------------------------
(* The networkx DiGraph: its nodes, the nodes' 'coords' attribute, each    *)
(* node's successors in insertion order, and the attribute dict of each    *)
(* edge.                                                                   *)

EmptyGraph ==
    [nodes |-> {}, coords |-> [n \in {} |-> 0],
     succ |-> [n \in {} |-> <<>>], attr |-> [e \in {} |-> 0]]

has_node(g, n) == n \in g.nodes
has_edge(g, u, v) == <<u, v>> \in DOMAIN g.attr

\* G.add_nodes_from(ids)
add_nodes_from(g, ids) ==
    [g EXCEPT !.nodes = g.nodes \cup ids,
              !.succ = [n \in g.nodes \cup ids |->
                          IF n \in g.nodes THEN g.succ[n] ELSE <<>>]]

\* nx.set_node_attributes(G, values, 'coords'): nodes not in G are passed over
set_node_attributes(g, values) ==
    [g EXCEPT !.coords =
        [n \in (DOMAIN g.coords) \cup (DOMAIN values \cap g.nodes) |->
            IF n \in DOMAIN values THEN values[n] ELSE g.coords[n]]]

\* add_edge replacing the attribute dict of an edge it finds
add_edge_replace(g, u, v, w, ty, r) ==
    LET g1 == [g EXCEPT !.nodes = g.nodes \cup {u, v},
                        !.succ = [n \in g.nodes \cup {u, v} |->
                                    IF n \in g.nodes THEN g.succ[n] ELSE <<>>]]
    IN  [g1 EXCEPT
           !.succ = [g1.succ EXCEPT ![u] =
                        IF <<u, v>> \in DOMAIN g.attr THEN @ ELSE Append(@, v)],
           !.attr = [e \in (DOMAIN g.attr) \cup {<<u, v>>} |->
                        IF e = <<u, v>>
                        THEN [weight |-> w, type |-> ty, route |-> r]
                        ELSE g.attr[e]]]

\* G.add_edge(u, v, weight=w, type=ty[, route=r]): the end points become
\* nodes, and the keywords update the attribute dict the edge already has;
\* r = NoRoute stands for a call without the route keyword
add_edge(g, u, v, w, ty, r) ==
    LET g1 == add_nodes_from(g, {u, v})
        old == IF has_edge(g, u, v) THEN g.attr[<<u, v>>]
               ELSE [weight |-> None, type |-> "", route |-> NoRoute]
        new == [weight |-> w, type |-> ty,
                route |-> IF r = NoRoute THEN old.route ELSE r]
    IN  [g1 EXCEPT
           !.succ = [g1.succ EXCEPT ![u] =
                        IF has_edge(g, u, v) THEN @ ELSE Append(@, v)],
           !.attr = [e \in (DOMAIN g.attr) \cup {<<u, v>>} |->
                        IF e = <<u, v>> THEN new ELSE g.attr[e]]]

AddNodes ==
    /\ pc = "add_nodes"
    /\ G' = set_node_attributes(add_nodes_from(EmptyGraph, DOMAIN stop_coords),
                                stop_coords)
    /\ i' = 1
    /\ pc' = "trip_edges"
    /\ UNCHANGED <<stops, trips, stop_times, transfers, trip_segments,
                   stop_name_map, stop_coords, trip_edges_df,
                   transfer_edges_df, path, total_seconds, out, raised>>

\* the body of the loop over trip_edges_df (lines 72-74)
TripEdgeStep(g, row) ==
    add_edge(g, row.from_stop_id, row.to_stop_id, row.weight, "travel",
             row.route_id)

AddTripEdge ==
    /\ pc = "trip_edges"
    /\ i <= Len(trip_edges_df)
    /\ G' = TripEdgeStep(G, trip_edges_df[i])
    /\ i' = i + 1
    /\ UNCHANGED <<stops, trips, stop_times, transfers, trip_segments,
                   stop_name_map, stop_coords, trip_edges_df,
                   transfer_edges_df, path, total_seconds, out, raised, pc>>

TripEdgesDone ==
    /\ pc = "trip_edges"
    /\ i > Len(trip_edges_df)
    /\ i' = 1
    /\ pc' = "transfer_edges"
    /\ UNCHANGED <<stops, trips, stop_times, transfers, trip_segments,
                   stop_name_map, stop_coords, trip_edges_df,
                   transfer_edges_df, G, path, total_seconds, out, raised>>

\* the body of the loop over transfer_edges_df (lines 76-79)
TransferEdgeStep(g, row) ==
    IF has_node(g, row.from_stop_id) /\ has_node(g, row.to_stop_id)
    THEN add_edge(g, row.from_stop_id, row.to_stop_id, row.weight, "transfer",
                  NoRoute)
    ELSE g

AddTransferEdge ==
    /\ pc = "transfer_edges"
    /\ i <= Len(transfer_edges_df)
    /\ G' = TransferEdgeStep(G, transfer_edges_df[i])
    /\ i' = i + 1
    /\ UNCHANGED <<stops, trips, stop_times, transfers, trip_segments,
                   stop_name_map, stop_coords, trip_edges_df,
                   transfer_edges_df, path, total_seconds, out, raised, pc>>

TransferEdgesDone ==
    /\ pc = "transfer_edges"
    /\ i > Len(transfer_edges_df)
    /\ pc' = "check_nodes"
    /\ UNCHANGED <<stops, trips, stop_times, transfers, trip_segments,
                   stop_name_map, stop_coords, trip_edges_df,
                   transfer_edges_df, G, i, path, total_seconds, out, raised>>

---------------------------------------------------------------------------
(* The heuristic.                                                          *)

\* an exception other than KeyError leaving a call
TypeError == [t |-> "TypeError", v |-> 0]

\* haversine(lat1, lon1, lat2, lon2), in millimetres, from coordinates in
\* hundredths of a degree.  math.radians(None) raises TypeError, NaN
\* propagates through the arithmetic.  With dlambda = 0: a = sin(dphi/2)^2,
\* c = |dphi|, and R * c = R * pi * |lat2 - lat1| / 18000 metres.
haversine(lat1, lon1, lat2, lon2) ==
    CASE \E x \in {lat1, lon1, lat2, lon2} : x.t = "none" -> TypeError
      [] /\ \A x \in {lat1, lon1, lat2, lon2} : x.t # "none"
         /\ \E x \in {lat1, lon1, lat2, lon2} : x.t = "nan" -> NaN
      [] /\ \A x \in {lat1, lon1, lat2, lon2} : IsNum(x)
         /\ lon2.v - lon1.v = 0 ->
            Num(((R \div 1000) * 31416 * Abs(lat2.v - lat1.v)) \div 180)

\* heuristic(u, v), in milliseconds (lines 84-97)
heuristic(g, u, v) ==
    IF \/ ~has_node(g, u) \/ u \notin DOMAIN g.coords
       \/ ~has_node(g, v) \/ v \notin DOMAIN g.coords
    THEN Num(0)                                                \* KeyError
    ELSE LET dist == haversine(g.coords[u].stop_lat, g.coords[u].stop_lon,
                               g.coords[v].stop_lat, g.coords[v].stop_lon)
         IN  IF IsNum(dist) THEN Num(dist.v \div SUBWAY_SPEED_MPS) ELSE dist

---------------------------------------------------------------------------
(* heapq, on a sequence holding the heap (index k here is position k-1     *)
(* there).  An entry is the tuple (priority, counter, node, dist, parent). *)

NoParent == "<None>"

Entry(f, n, node, dist, parent) ==
    [f |-> f, n |-> n, node |-> node, dist |-> dist, parent |-> parent]

\* tuple a < tuple b: the first differing position decides; two priorities
\* differ unless they are equal numbers, and the counters are all distinct
EntryLt(a, b) == IF PyEq(a.f, b.f) THEN a.n < b.n ELSE PyLt(a.f, b.f)

\* heapq._siftdown(heap, startpos, pos), with the item being placed
RECURSIVE SiftDown(_, _, _, _)
SiftDown(heap, startpos, pos, newitem) ==
    IF pos > startpos /\ EntryLt(newitem, heap[pos \div 2])
    THEN SiftDown([heap EXCEPT ![pos] = heap[pos \div 2]], startpos,
                  pos \div 2, newitem)
    ELSE [heap EXCEPT ![pos] = newitem]

\* heapq._siftup(heap, pos): the smaller child is moved up until a leaf is
\* reached, then the item is sifted down from there
RECURSIVE SiftUpLoop(_, _, _, _)
SiftUpLoop(heap, startpos, pos, newitem) ==
    LET childpos == 2 * pos
        rightpos == childpos + 1
        c == IF rightpos <= Len(heap) /\ ~EntryLt(heap[childpos], heap[rightpos])
             THEN rightpos ELSE childpos
    IN  IF childpos <= Len(heap)
        THEN SiftUpLoop([heap EXCEPT ![pos] = heap[c]], startpos, c, newitem)
        ELSE SiftDown(heap, startpos, pos, newitem)

heappush(heap, item) == SiftDown(Append(heap, item), 1, Len(heap) + 1, item)

\* the heap left by heapq.heappop(heap); the item returned is heap[1]
heappop(heap) ==
    LET lastelt == heap[Len(heap)]
        rest == SubSeq(heap, 1, Len(heap) - 1)
    IN  IF rest = <<>> THEN <<>> ELSE SiftUpLoop(rest, 1, 1, lastelt)

---------------------------------------------------------------------------
(* nx.astar_path(G, source, target, heuristic, weight='weight')            *)

\* the most queue pops the model follows a search for: a search with an edge
\* of negative or NaN weight on a cycle pops for ever
MaxPops == 24

\* The heuristic argument of a call: the name of the program's function, or
\* NoHeuristic for a call without one (networkx then estimates 0).
NoHeuristic == "<no heuristic>"

HeuristicArg(g, h, u, v) ==
    IF h = "heuristic" THEN heuristic(g, u, v) ELSE Num(0)

\* The weight argument of a call, an attribute name:
\* weight(u, v, data) = data.get(weight, 1); the edges carry 'weight', so any
\* other number-valued name gives 1 for every edge
EdgeWeight(g, u, v, weight) ==
    IF weight = "weight" THEN g.attr[<<u, v>>].weight ELSE Num(1)

\* the same, in milliseconds
EdgeCost(g, u, v, weight) ==
    LET w == EdgeWeight(g, u, v, weight)
    IN  IF IsNum(w) THEN Num(w.v * 1000) ELSE w

\* one pass of the loop over G_succ[curnode].items(), for the k-th successor
\* and those after it; st.err is set when the heuristic raises
RECURSIVE Relax(_, _, _, _, _, _, _, _)
Relax(g, st, curnode, dist, target, h_arg, weight, k) ==
    IF k > Len(g.succ[curnode]) \/ st.err # "" THEN st
    ELSE LET neighbor == g.succ[curnode][k]
             cost == EdgeCost(g, curnode, neighbor, weight)
             ncost == PyAdd(dist, cost)
             known == neighbor \in DOMAIN st.enqueued
             h == IF known THEN st.enqueued[neighbor].h
                  ELSE HeuristicArg(g, h_arg, neighbor, target)
         IN  IF cost = None                                  \* hidden edge
             THEN Relax(g, st, curnode, dist, target, h_arg, weight, k + 1)
             ELSE IF known /\ PyLe(st.enqueued[neighbor].cost, ncost)
             THEN Relax(g, st, curnode, dist, target, h_arg, weight, k + 1)
             ELSE IF h = TypeError
             THEN [st EXCEPT !.err = "TypeError"]
             ELSE Relax(g,
                    [st EXCEPT
                       !.enqueued = [n \in (DOMAIN st.enqueued) \cup {neighbor} |->
                                       IF n = neighbor
                                       THEN [cost |-> ncost, h |-> h]
                                       ELSE st.enqueued[n]],
                       !.queue = heappush(st.queue,
                                    Entry(PyAdd(ncost, h), st.c, neighbor,
                                          ncost, curnode)),
                       !.c = st.c + 1],
                    curnode, dist, target, h_arg, weight, k + 1)

\* the path read back through explored, from the source to node; <<>> when
\* the parents form a cycle (the code's loop then never ends)
RECURSIVE PathTo(_, _, _)
PathTo(explored, node, fuel) ==
    IF node = NoParent THEN <<"">>
    ELSE IF fuel = 0 THEN <<>>
    ELSE LET before == PathTo(explored, explored[node], fuel - 1)
         IN  IF before = <<>> THEN <<>>
             ELSE IF before = <<"">> THEN <<node>>
             ELSE Append(before, node)

RECURSIVE AstarLoop(_, _, _, _, _, _)
AstarLoop(g, target, h_arg, weight, st, fuel) ==
    IF st.err # "" THEN [kind |-> st.err, path |-> <<>>]
    ELSE IF st.queue = <<>> THEN [kind |-> "NetworkXNoPath", path |-> <<>>]
    ELSE IF fuel = 0 THEN [kind |-> "Hang", path |-> <<>>]
    ELSE LET top == st.queue[1]
             curnode == top.node
             popped == [st EXCEPT !.queue = heappop(st.queue)]
         IN  IF curnode = target
             THEN LET before == PathTo(st.explored, top.parent,
                                       Cardinality(g.nodes) + 1)
                  IN  IF before = <<>> THEN [kind |-> "Hang", path |-> <<>>]
                      ELSE [kind |-> "path",
                            path |-> IF before = <<"">> THEN <<curnode>>
                                     ELSE Append(before, curnode)]
             ELSE IF /\ curnode \in DOMAIN st.explored
                     /\ \/ st.explored[curnode] = NoParent
                        \/ PyLt(st.enqueued[curnode].cost, top.dist)
             THEN AstarLoop(g, target, h_arg, weight, popped, fuel - 1)
             ELSE AstarLoop(g, target, h_arg, weight,
                    Relax(g,
                      [popped EXCEPT
                         !.explored = [n \in (DOMAIN st.explored) \cup {curnode} |->
                                         IF n = curnode THEN top.parent
                                         ELSE st.explored[n]]],
                      curnode, top.dist, target, h_arg, weight, 1),
                    fuel - 1)

astar_path(g, source, target, h_arg, weight) ==
    AstarLoop(g, target, h_arg, weight,
        [queue |-> <<Entry(Num(0), 0, source, Num(0), NoParent)>>,
         c |-> 1,
         enqueued |-> [n \in {} |-> 0],
         explored |-> [n \in {} |-> 0],
         err |-> ""],
        MaxPops)

\* sum(weight(u, v, G[u][v]) for u, v in zip(path[:-1], path[1:])), seconds
RECURSIVE PathWeight(_, _, _)
PathWeight(g, p, weight) ==
    IF Len(p) < 2 THEN Num(0)
    ELSE PyAdd(EdgeWeight(g, p[1], p[2], weight), PathWeight(g, Tail(p), weight))

\* nx.astar_path_length(G, source, target, heuristic, weight): a search of
\* its own, then the sum along the path it found
astar_path_length(g, source, target, h_arg, weight) ==
    LET r == astar_path(g, source, target, h_arg, weight)
    IN  IF r.kind = "path"
        THEN [kind |-> "length", value |-> PathWeight(g, r.path, weight)]
        ELSE [kind |-> r.kind, value |-> None]

---------------------------------------------------------------------------
(* gtfs_astar.py: the prediction (lines 99-129)                            *)

CheckNodes ==
    /\ pc = "check_nodes"
    /\ IF has_node(G, start_node) /\ has_node(G, end_node)
       THEN pc' = "astar_path" /\ out' = out
       ELSE pc' = "done" /\ out' = Append(out, "NodeNotFound")
    /\ UNCHANGED <<stops, trips, stop_times, transfers, trip_segments,
                   stop_name_map, stop_coords, trip_edges_df,
                   transfer_edges_df, G, i, path, total_seconds, raised>>

\* where a call of the search leaves the program: on to the next line, into
\* the except clause, out with the exception, or nowhere
AfterSearch(kind, next) ==
    CASE kind \in {"path", "length"} -> [pc |-> next, out |-> out, raised |-> raised]
      [] kind = "NetworkXNoPath" ->
           [pc |-> "done", out |-> Append(out, "NoPathFound"), raised |-> raised]
      [] kind = "TypeError" -> [pc |-> "done", out |-> out, raised |-> "TypeError"]
      [] kind = "Hang" -> [pc |-> "hang", out |-> out, raised |-> raised]

\* line 109: nx.astar_path(G, start_node, end_node, heuristic=heuristic,
\* weight='weight')
PathCall(g) == astar_path(g, start_node, end_node, "heuristic", "weight")

\* line 110 written without its heuristic argument
LengthCall_without_heuristic(g) ==
    astar_path_length(g, start_node, end_node, NoHeuristic, "weight")

\* line 110: nx.astar_path_length(G, start_node, end_node,
\* heuristic=heuristic, weight='weight')
LengthCall(g) ==
    astar_path_length(g, start_node, end_node, "heuristic", "weight")

AstarPath ==
    /\ pc = "astar_path"
    /\ LET r == PathCall(G)
           a == AfterSearch(r.kind, "astar_path_length")
       IN  /\ path' = r.path
           /\ pc' = a.pc /\ out' = a.out /\ raised' = a.raised
    /\ UNCHANGED <<stops, trips, stop_times, transfers, trip_segments,
                   stop_name_map, stop_coords, trip_edges_df,
                   transfer_edges_df, G, i, total_seconds>>

AstarPathLength ==
    /\ pc = "astar_path_length"
    /\ LET r == LengthCall(G)
           a == AfterSearch(r.kind, "report")
       IN  /\ total_seconds' = r.value
           /\ pc' = a.pc /\ out' = a.out /\ raised' = a.raised
    /\ UNCHANGED <<stops, trips, stop_times, transfers, trip_segments,
                   stop_name_map, stop_coords, trip_edges_df,
                   transfer_edges_df, G, i, path>>

\* the mode printed for the edge u -> v (line 123)
Mode(g, u, v) ==
    IF g.attr[<<u, v>>].type = "travel" THEN g.attr[<<u, v>>].route
    ELSE "Transfer/Walk"

Min(a, b) == IF a < b THEN a ELSE b

\* lines 112-124: the header, the two names (a KeyError for a name that is
\* not in stop_name_map), then the modes of the first five segments
Report ==
    /\ pc = "report"
    /\ IF start_node \in DOMAIN stop_name_map /\ end_node \in DOMAIN stop_name_map
       THEN /\ out' = Append(out, "Success") \o
                        [k \in 1..Min(5, Len(path) - 1) |->
                            Mode(G, path[k], path[k + 1])]
            /\ raised' = raised
       ELSE /\ out' = Append(out, "Success")
            /\ raised' = "KeyError"
    /\ pc' = "done"
    /\ UNCHANGED <<stops, trips, stop_times, transfers, trip_segments,
                   stop_name_map, stop_coords, trip_edges_df,
                   transfer_edges_df, G, i, path, total_seconds>>

---------------------------------------------------------------------------
(* The inputs and the specifications.                                      *)

\* coordinates, in hundredths of a degree: two latitudes on one meridian
Lats == {4070, 4072}
Lons == {-7399}
CoordCells(vals) == {None} \cup {Num(x) : x \in vals}

\* everything but the tables
Blank(start) ==
    /\ stop_name_map = [s \in {} |-> ""]
    /\ stop_coords = [s \in {} |-> 0]
    /\ trip_edges_df = <<>>
    /\ transfer_edges_df = <<>>
    /\ G = EmptyGraph
    /\ i = 1
    /\ path = <<>>
    /\ total_seconds = None
    /\ out = <<>>
    /\ raised = ""
    /\ pc = start

BothTrips == [t \in TripIds |-> IF t = "T1" THEN "1" ELSE "A"]

Seg(t, u, v, d) ==
    [trip_id |-> t, from_stop_id |-> u, to_stop_id |-> v, duration_sec |-> d,
     route_id |-> BothTrips[t]]

Transfer(u, v, m) ==
    [from_stop_id |-> u, to_stop_id |-> v, min_transfer_time |-> m]

\* the most rows of the transfers table, and of trip_segments when its rows
\* are drawn freely
MaxTransfers == 2
MaxSegs == 2

\* the sequences over S of length at most n
SeqsUpTo(S, n) == UNION {[1..k -> S] : k \in 0..n}

\* A database already built, for the search: any stops table, a local trip
\* 101S -> 120S -> 142S and an express trip 101S -> 142S
SearchSegs ==
    {a \cup b \cup c :
       a \in {{}} \cup {{Seg("T1", "101S", "120S", Num(d))} : d \in {100, 300}},
       b \in {{}} \cup {{Seg("T1", "120S", "142S", Num(d))} : d \in {100, 300}},
       c \in {{}} \cup {{Seg("T2", "101S", "142S", Num(d))} : d \in {100, 300}}}

SearchTransfers ==
    SeqsUpTo({Transfer("120S", "142S", Num(m)) : m \in {0, 120}}, MaxTransfers)

InitSearch ==
    /\ \E present \in SUBSET StopIds :
         stops \in [present -> [stop_lat : CoordCells(Lats),
                                stop_lon : CoordCells(Lons)]]
    /\ trips = BothTrips
    /\ stop_times = {}
    /\ trip_segments \in SearchSegs
    /\ transfers \in SearchTransfers
    /\ Blank("load_stops")

\* stops with all their coordinates: 120S north of the other two
FixedStops(present) ==
    [s \in present |-> [stop_lat |-> Num(IF s = "120S" THEN 4072 ELSE 4070),
                        stop_lon |-> Num(-7399)]]

\* A database already built, for the graph: any stops, a few trip_segments
\* rows (two trips on 101S -> 120S, a loop row) and a few transfers rows
\* (repeated pairs, a loop row, every kind of min_transfer_time)
GraphSegRows ==
    {Seg("T1", "101S", "120S", Num(100)), Seg("T2", "101S", "120S", Num(100)),
     Seg("T2", "101S", "120S", Num(300)), Seg("T1", "120S", "142S", Num(100)),
     Seg("T2", "101S", "142S", Num(300)), Seg("T1", "120S", "120S", Num(100))}

GraphTransferRows ==
    {Transfer("101S", "120S", m) : m \in {None, Num(0), Num(-5), Num(50)}}
      \cup {Transfer("120S", "142S", m) : m \in {Num(0), Num(120)}}
      \cup {Transfer("120S", "120S", Num(50))}

InitGraph ==
    /\ \E present \in SUBSET StopIds : stops = FixedStops(present)
    /\ trips = BothTrips
    /\ stop_times = {}
    /\ trip_segments \in {S \in SUBSET GraphSegRows : Cardinality(S) <= MaxSegs}
    /\ transfers \in SeqsUpTo(GraphTransferRows, MaxTransfers)
    /\ Blank("load_stops")

\* A feed for gtfs_to_sql.py: trip T1 calls at 101S, 120S, 142S with any
\* time cells, trip T2 (when it runs) at 101S and 120S five minutes apart;
\* trips.txt may lack T1
TimeCells ==
    {NaTime,
     TimeStr(<<Part(0), Part(1), Part(40)>>),        \* "00:01:40"
     TimeStr(<<Part(0), Part(5), Part(0)>>),         \* "00:05:00"
     TimeStr(<<BadPart, Part(5), Part(0)>>),         \* "xx:05:00"
     TimeStr(<<Part(0), Part(5)>>)}                  \* "00:05"

StopTime(t, s, q, a, d) ==
    [trip_id |-> t, stop_id |-> s, stop_sequence |-> q, arrival_time |-> a,
     departure_time |-> d]

T2StopTimes ==
    {StopTime("T2", "101S", 1, TimeStr(<<Part(0), Part(0), Part(0)>>),
                               TimeStr(<<Part(0), Part(0), Part(0)>>)),
     StopTime("T2", "120S", 2, TimeStr(<<Part(0), Part(5), Part(0)>>),
                               TimeStr(<<Part(0), Part(5), Part(0)>>))}

Init ==
    /\ stops = FixedStops(StopIds)
    /\ trips \in {BothTrips, [t \in {"T2"} |-> "A"]}
    /\ \E a1, d1, a2, d2, a3, d3 \in TimeCells :
         \E t2 \in {{}, T2StopTimes} :
           stop_times = {StopTime("T1", "101S", 1, a1, d1),
                         StopTime("T1", "120S", 2, a2, d2),
                         StopTime("T1", "142S", 3, a3, d3)} \cup t2
    /\ trip_segments = {}
    /\ transfers = <<Transfer("120S", "101S", None)>>
    /\ Blank("build_database")

NextAstar ==
    \/ LoadStops
    \/ LoadEdges
    \/ AddNodes
    \/ AddTripEdge
    \/ TripEdgesDone
    \/ AddTransferEdge
    \/ TransferEdgesDone
    \/ CheckNodes
    \/ AstarPath
    \/ AstarPathLength
    \/ Report

Next == BuildDatabase \/ NextAstar

\* gtfs_to_sql.py, then gtfs_astar.py, on a feed
Spec == Init /\ [][Next]_vars

\* gtfs_astar.py on a database already built
SpecGraph == InitGraph /\ [][NextAstar]_vars
SpecSearch == InitSearch /\ [][NextAstar]_vars

---------------------------------------------------------------------------
(* Reference notions the properties are stated with.                       *)

\* the weights (seconds) of the walks from u to v of at most k edges, over
\* the edges of numeric weight
RECURSIVE WalkCosts(_, _, _, _)
WalkCosts(g, u, v, k) ==
    IF k = 0 THEN (IF u = v THEN {0} ELSE {})
    ELSE WalkCosts(g, u, v, k - 1) \cup
         UNION {{c + g.attr[<<x, v>>].weight.v : c \in WalkCosts(g, u, x, k - 1)} :
                  x \in {y \in g.nodes : has_edge(g, y, v)
                                          /\ IsNum(g.attr[<<y, v>>].weight)}}

Reachable(g, u, v) == WalkCosts(g, u, v, Cardinality(g.nodes)) # {}

\* what a uniform-cost search returns on non-negative weights
ShortestSeconds(g, u, v) ==
    LET cs == WalkCosts(g, u, v, Cardinality(g.nodes))
    IN  CHOOSE m \in cs : \A n \in cs : m <= n

ValidCoords(g, n) ==
    /\ n \in DOMAIN g.coords
    /\ IsNum(g.coords[n].stop_lat)
    /\ IsNum(g.coords[n].stop_lon)

\* the graph is complete and the prediction has not started
GraphBuilt == pc = "check_nodes"

---------------------------------------------------------------------------
(* The search (SpecSearch).                                                *)

\* C1: between any two nodes of a built graph whose stations all have
\* coordinates, the length A* reports for a reachable pair is the weight of
\* a shortest path.
C1_Optimality ==
    (GraphBuilt /\ \A n \in G.nodes : ValidCoords(G, n)) =>
        \A u \in G.nodes : \A v \in G.nodes :
            Reachable(G, u, v) =>
                astar_path_length(G, u, v, "heuristic", "weight") =
                    [kind |-> "length", value |-> Num(ShortestSeconds(G, u, v))]

\* C2: for two stations with coordinates joined by a path, the heuristic
\* estimate (ms) is at most the least travel time over the paths joining them.
C2_Admissible ==
    GraphBuilt =>
        \A u \in G.nodes : \A v \in G.nodes :
            (ValidCoords(G, u) /\ ValidCoords(G, v) /\ Reachable(G, u, v)) =>
                /\ IsNum(heuristic(G, u, v))
                /\ heuristic(G, u, v).v <= 1000 * ShortestSeconds(G, u, v)

\* a station of the stops table with a NULL latitude or longitude, a node
\* without the coords attribute, or an identifier that is no node
LacksCoords(n) ==
    \/ ~has_node(G, n)
    \/ n \notin DOMAIN G.coords
    \/ (n \in DOMAIN stops /\ (stops[n].stop_lat = None \/ stops[n].stop_lon = None))

\* C5: the heuristic returns a number that is never negative, raises
\* nothing, and returns 0 as soon as one of the two identifiers lacks
\* coordinates or is no node.
C5_ZeroFallback ==
    GraphBuilt =>
        \A u \in StopIds \cup {"999X"} : \A v \in StopIds \cup {"999X"} :
            /\ IsNum(heuristic(G, u, v))
            /\ heuristic(G, u, v).v >= 0
            /\ (LacksCoords(u) \/ LacksCoords(v)) => heuristic(G, u, v) = Num(0)

\* the program ended with the one message msg, without a path, a total, a
\* success report or an exception
FailedWith(msg) ==
    /\ pc = "done"
    /\ out = <<msg>>
    /\ path = <<>>
    /\ total_seconds = None
    /\ raised = ""

\* C6: when the origin or the destination is no node the program ends with
\* NodeNotFound, and when both are nodes and the destination cannot be
\* reached it ends with NoPathFound; no path, total, success report or
\* exception comes with either.
C6_ExplicitFailure ==
    pc \in {"done", "hang"} =>
        /\ (~has_node(G, start_node) \/ ~has_node(G, end_node))
              => FailedWith("NodeNotFound")
        /\ (/\ has_node(G, start_node) /\ has_node(G, end_node)
            /\ ~Reachable(G, start_node, end_node))
              => FailedWith("NoPathFound")

\* the seconds along p, edge by edge
RECURSIVE SumSeconds(_, _, _)
SumSeconds(g, p, k) ==
    IF k >= Len(p) THEN 0
    ELSE g.attr[<<p[k], p[k + 1]>>].weight.v + SumSeconds(g, p, k + 1)

\* C10: the two calls (lines 109 and 110, each a search of its own with the
\* arguments written there) leave the graph as it is, and once success is
\* reported the path of the first call leads from the origin to the
\* destination along edges of the graph and the total of the second call is
\* the sum of the weights of those edges.
C10_PathTotalAgree ==
    [][/\ pc \in {"astar_path", "astar_path_length"} => G' = G
       /\ "Success" \in {out'[k] : k \in 1..Len(out')} =>
            /\ Len(path') >= 1
            /\ path'[1] = start_node
            /\ path'[Len(path')] = end_node
            /\ \A k \in 1..(Len(path') - 1) : has_edge(G', path'[k], path'[k + 1])
            /\ total_seconds' = Num(SumSeconds(G', path', 1))]_vars

\* success reported for a path that is not a shortest one: the first call
\* took the direct edge of 300 s although 220 s can be had through 120S, and
\* the second call reports the 300 s of that path
C10_Witness ==
    /\ pc = "done"
    /\ out # <<>> /\ out[1] = "Success"
    /\ path = <<start_node, end_node>>
    /\ total_seconds = Num(300)
    /\ ShortestSeconds(G, start_node, end_node) = 220

---------------------------------------------------------------------------
(* The graph (SpecGraph).                                                  *)

\* C3: in the built graph every node and every end point of an edge is a
\* station of the stops table.
C3_NoDangling ==
    GraphBuilt =>
        /\ G.nodes \subseteq DOMAIN stops
        /\ \A e \in DOMAIN G.attr : e[1] \in DOMAIN stops /\ e[2] \in DOMAIN stops

\* the ordered pairs the Travel records and the Transfer records target
TravelPairs == {<<r.from_stop_id, r.to_stop_id>> : r \in trip_segments}
TransferPairs ==
    {<<transfers[k].from_stop_id, transfers[k].to_stop_id>> :
        k \in 1..Len(transfers)}

\* the last Transfer record for the pair e
LastTransfer(e) ==
    LET ks == {k \in 1..Len(transfers) :
                 <<transfers[k].from_stop_id, transfers[k].to_stop_id>> = e}
    IN  transfers[CHOOSE k \in ks : \A j \in ks : j <= k]

\* the weight the spec gives a Transfer record: the stored minimum transfer
\* time when positive, 180 when it is missing, zero or negative
SpecTransferWeight(m) == IF m = None \/ m.v <= 0 THEN Num(180) ELSE m

\* C4 as stated: a pair (from # to) targeted by a Travel and by a Transfer
\* record holds the Transfer edge inserted last and nothing of the Travel
\* edge; only edges of kind travel carry a route label.
C4_Overwrite ==
    GraphBuilt =>
        /\ \A e \in TravelPairs \cap TransferPairs :
              e[1] # e[2] =>
                /\ has_edge(G, e[1], e[2])
                /\ G.attr[e] =
                     [weight |-> SpecTransferWeight(LastTransfer(e).min_transfer_time),
                      type |-> "transfer", route |-> NoRoute]
        /\ \A e \in DOMAIN G.attr :
              G.attr[e].route # NoRoute => G.attr[e].type = "travel"

\* C4 as amended: a pair (from # to) targeted by a Travel and by a Transfer
\* record holds one edge with the weight and the kind transfer of the last
\* Transfer record, and the edge keeps the route label of the Travel edge;
\* an edge carries a route label exactly when a Travel record targets its
\* pair.
C4_OverwriteKeepsRoute ==
    GraphBuilt =>
        /\ \A e \in TravelPairs \cap TransferPairs :
              e[1] # e[2] =>
                /\ has_edge(G, e[1], e[2])
                /\ G.attr[e].weight =
                     SpecTransferWeight(LastTransfer(e).min_transfer_time)
                /\ G.attr[e].type = "transfer"
                /\ G.attr[e].route \in
                     {r.route_id : r \in GroupRows(trip_segments, e)}
        /\ \A e \in DOMAIN G.attr :
              G.attr[e].route # NoRoute <=> e \in TravelPairs

\* a built graph with a pair both kinds of record target: the edge is of
\* kind transfer and carries a route
C4_Witness ==
    /\ GraphBuilt
    /\ \E e \in TravelPairs \cap TransferPairs :
          /\ e[1] # e[2]
          /\ G.attr[e].type = "transfer"
          /\ G.attr[e].route = "1"
          /\ G.attr[e].weight = Num(180)

\* the number of Transfer records with from # to among the first k
NonLoopsUpTo(k) ==
    Cardinality({j \in 1..k : transfers[j].from_stop_id # transfers[j].to_stop_id})

\* the Transfer record k is the one the loop has just treated
JustTreated(k) ==
    /\ pc = "transfer_edges"
    /\ transfers[k].from_stop_id # transfers[k].to_stop_id
    /\ i = NonLoopsUpTo(k) + 1

\* C9: a Transfer record with from # to and both end points nodes of the
\* graph yields, when the loop treats it, an edge of kind transfer whose
\* weight is 180 for a missing, zero or negative min_transfer_time and the
\* stored value otherwise; the built graph keeps that edge for the last
\* record of each pair; no edge of kind transfer joins a node to itself.
C9_DefaultSubstitution ==
    /\ \A k \in 1..Len(transfers) :
          LET r == transfers[k]
              e == <<r.from_stop_id, r.to_stop_id>>
          IN  (/\ \/ JustTreated(k)
                  \/ (GraphBuilt /\ e[1] # e[2] /\ LastTransfer(e) = r)
               /\ has_node(G, e[1]) /\ has_node(G, e[2]))
                 => /\ has_edge(G, e[1], e[2])
                    /\ G.attr[e].type = "transfer"
                    /\ G.attr[e].weight = SpecTransferWeight(r.min_transfer_time)
    /\ \A e \in DOMAIN G.attr : G.attr[e].type = "transfer" => e[1] # e[2]

\* the loop has just treated a record with min_transfer_time 0 after a
\* record to a node with itself, and the edge weighs 180
C9_Witness ==
    \E k \in 1..Len(transfers) :
        /\ JustTreated(k)
        /\ NonLoopsUpTo(k) < k
        /\ transfers[k].min_transfer_time = Num(0)
        /\ has_edge(G, transfers[k].from_stop_id, transfers[k].to_stop_id)
        /\ G.attr[<<transfers[k].from_stop_id, transfers[k].to_stop_id>>].weight
             = Num(180)

---------------------------------------------------------------------------
(* The feed (Spec).                                                        *)

\* a time cell from which the seconds can be computed: HH:MM:SS
WellFormed(cell) ==
    /\ ~cell.na
    /\ Len(cell.parts) >= 3
    /\ \A k \in 1..3 : cell.parts[k].ok

\* r and n are consecutive calls of one trip of trips.txt
Consecutive(r, n) ==
    /\ r.trip_id = n.trip_id
    /\ r.trip_id \in DOMAIN trips
    /\ r.stop_sequence < n.stop_sequence
    /\ ~\E m \in stop_times :
          /\ m.trip_id = r.trip_id
          /\ r.stop_sequence < m.stop_sequence
          /\ m.stop_sequence < n.stop_sequence

\* C7: every edge of kind travel of the built graph comes from a segment
\* whose departure and arrival times are both well formed: a segment with a
\* missing or unparsable time yields no edge.
C7_MalformedSkipped ==
    GraphBuilt =>
        \A e \in DOMAIN G.attr :
            G.attr[e].type = "travel" =>
                \E r \in stop_times : \E n \in stop_times :
                    /\ Consecutive(r, n)
                    /\ r.stop_id = e[1] /\ n.stop_id = e[2]
                    /\ WellFormed(r.departure_time)
                    /\ WellFormed(n.arrival_time)

\* C8: every edge of the built graph whose weight is a number has a weight
\* of at least 0.
C8_NonNegative ==
    GraphBuilt =>
        \A e \in DOMAIN G.attr :
            IsNum(G.attr[e].weight) => G.attr[e].weight.v >= 0

=============================================================================
